---- MODULE Spec2Model ----
(***************************************************************************)
(* A model of the Ethiopia daily news bot: feed ingestion, fuzzy title     *)
(* de-duplication, body condensation, and the chunked, retried delivery of *)
(* the rendered message.                                                   *)
(*                                                                         *)
(* Text is modelled as a sequence of one-character strings, so that        *)
(* slicing, splitting on blank lines and tag counting act on characters as *)
(* they do in the program.                                                 *)
(***************************************************************************)
EXTENDS Integers, Sequences, FiniteSets, TLC

VARIABLES
    \* ---- telegram_sender: send_message / _split_message ----
    text,         \* the document handed to send_message / _split_message
    max_len,      \* the length limit (MAX_LEN in send_message, max_len in _split_message)
    caller,       \* who called _split_message: "send_message" or "direct"
    pc,           \* position in send_message / _split_message
    chunks,       \* _split_message: blocks not yet processed
    current,      \* _split_message: the accumulator
    split_parts,  \* _split_message: the local list `parts`
    flushed,      \* history: the accumulator as it was before each repair
    parts,        \* send_message: the list `parts` (or _split_message's result)
    \* ---- telegram_sender: the delivery loops and _send_async ----
    path,         \* "run": the asyncio.run loop; "fallback": the new event loop
    part_idx,     \* the for loop over parts: index of the part being delivered
    attempt,      \* _send_async: the attempt number
    inflight,     \* parts whose bot.send_message call has not yet returned
    events,       \* history: each delivery call going out, each return of _send_async
    outcomes,     \* history: how each call of the current _send_async ended
    send_result,  \* what _send_async returned for the current part
    result,       \* what send_message returned
    loop_closed,  \* the fallback loop was closed by the finally clause
    \* ---- news_fetcher: _deduplicate ----
    articles,     \* the list handed to _deduplicate
    threshold,    \* its threshold, in hundredths
    kept,         \* the list it returned
    dedup_pc,     \* "call" before the call, "returned" after
    \* ---- news_fetcher: fetch_ethiopia_news ----
    feeds,        \* what feedparser.parse yields for each of config.RSS_FEEDS
    max_articles, \* the argument; 0 stands for None (and for 0: both are falsy)
    feed_idx,     \* the for loop over the feeds
    entry_idx,    \* the for loop over feed.entries
    all_articles, \* the candidates collected so far
    fetched,      \* what fetch_ethiopia_news returned
    fetch_pc,     \* "feed", "entry", "returned"; "idle" when not part of the run
    \* ---- summarizer: summarize_batch ----
    batch,        \* the articles as they were handed to summarize_batch
    mode,         \* config.SUMMARIZATION_MODE.lower(), or "undefined"
    model_ready,  \* _model is set
    parser_ready, \* PlaintextParser was imported
    response,     \* what the generate_content call came to
    engine,       \* per article, what the sentence ranking came to
    branches,     \* history: per article, the statement that wrote its description
    condensed,    \* the articles, descriptions updated in place
    cond_pc,      \* position in summarize_batch; "idle" when not part of the run
    \* ---- news_fetcher: the similarity ratio of two keys ----
    key_a,        \* a normalized title
    key_b,        \* another
    ratio_ab,     \* SequenceMatcher(None, key_a, key_b).ratio(), as a fraction
    ratio_ba,     \* SequenceMatcher(None, key_b, key_a).ratio(), as a fraction
    ratio_pc,     \* "call" before the two calls, "returned" after
    \* ---- main: run_daily_job ----
    job_items,    \* the articles handed to format_news_message
    message,      \* what format_news_message returned
    job_success,  \* what run_daily_job returned
    job_pc,        \* position in run_daily_job; "idle" when not part of the run
    \* ---- message_formatter: format_news_message ----
    render_items, \* the list handed to format_news_message
    document,     \* what it returned
    render_pc     \* "call" before the call, "returned" after

chunkVars == <<text, max_len, caller, pc, chunks, current, split_parts, flushed, parts>>
sendVars == <<path, part_idx, attempt, inflight, events, outcomes, send_result, result,
              loop_closed>>

dedupVars == <<articles, threshold, kept, dedup_pc>>

fetchVars == <<feeds, max_articles, feed_idx, entry_idx, all_articles, fetched, fetch_pc>>

condVars == <<batch, mode, model_ready, parser_ready, response, engine, branches,
              condensed, cond_pc>>

ratioVars == <<key_a, key_b, ratio_ab, ratio_ba, ratio_pc>>

jobVars == <<job_items, message, job_success, job_pc>>

renderVars == <<render_items, document, render_pc>>

vars == <<chunkVars, sendVars, dedupVars, fetchVars, condVars, ratioVars, jobVars, renderVars>>

\* What the actions of one module leave alone.
notTelegram == <<dedupVars, fetchVars, condVars, ratioVars, jobVars, renderVars>>
notChunk == <<sendVars, notTelegram>>
notDedup == <<chunkVars, sendVars, fetchVars, condVars, ratioVars, jobVars, renderVars>>
notFetch == <<chunkVars, sendVars, dedupVars, condVars, ratioVars, jobVars, renderVars>>
notCond == <<chunkVars, sendVars, dedupVars, fetchVars, ratioVars, jobVars, renderVars>>
notRatio == <<chunkVars, sendVars, dedupVars, fetchVars, condVars, jobVars, renderVars>>
notJob == <<chunkVars, sendVars, dedupVars, fetchVars, condVars, ratioVars, renderVars>>
notRender == <<chunkVars, sendVars, dedupVars, fetchVars, condVars, ratioVars, jobVars>>

----------------------------------------------------------------------------
(* Characters and strings *)

NL == "\n"
SP == " "
\* What the regular expression class \s matches among the model's characters.
Whitespace == {NL, SP}

Min(a, b) == IF a <= b THEN a ELSE b

\* Python's s[:n] for n >= 0.
Take(s, n) == SubSeq(s, 1, Min(n, Len(s)))

\* Python's s[n:] for n >= 0 (n counts the characters dropped).
Drop(s, n) == SubSeq(s, n + 1, Len(s))

\* Whether `lit` occurs in `s` starting at position p (1-based).
OccursAt(lit, s, p) ==
    /\ p >= 1
    /\ p + Len(lit) - 1 <= Len(s)
    /\ \A k \in 1..Len(lit) : s[p + k - 1] = lit[k]

RECURSIVE Concat(_)
\* "".join(seq) for a sequence of strings.
Concat(ss) == IF ss = <<>> THEN <<>> ELSE Head(ss) \o Concat(Tail(ss))

RECURSIVE Repeat(_, _)
\* Python's lit * n.
Repeat(lit, n) == IF n <= 0 THEN <<>> ELSE lit \o Repeat(lit, n - 1)

BlankLine == <<NL, NL>>

RECURSIVE JoinBlank(_)
\* "\n\n".join(seq).
JoinBlank(ss) ==
    IF ss = <<>> THEN <<>>
    ELSE IF Len(ss) = 1 THEN ss[1]
    ELSE ss[1] \o BlankLine \o JoinBlank(Tail(ss))

RECURSIVE SplitFrom(_, _, _)
\* text.split("\n\n"): scan left to right for non-overlapping blank lines;
\* `start` is where the block being read began, p the scan position. The
\* scan moves straight to the leftmost blank line at or after p.
SplitFrom(s, start, p) ==
    LET seps == {q \in p..(Len(s) - 1) : s[q] = NL /\ s[q + 1] = NL}
    IN  IF seps = {} THEN <<SubSeq(s, start, Len(s))>>
        ELSE LET q == CHOOSE q \in seps : \A r \in seps : q <= r
             IN  <<SubSeq(s, start, q - 1)>> \o SplitFrom(s, q + 2, q + 2)

SplitBlank(s) == SplitFrom(s, 1, 1)

----------------------------------------------------------------------------
(* telegram_sender._close_open_tags *)

\* The tags repaired, in the order the loop visits them.
Tags == <<"i", "b", "a">>

CloseTag(tag) == <<"<", "/", tag, ">">>

RECURSIVE CountLiteralFrom(_, _, _)
\* text.count(lit): non-overlapping occurrences, scanning from p; the scan
\* moves straight to the leftmost occurrence at or after p.
CountLiteralFrom(lit, s, p) ==
    LET hits == {q \in p..Len(s) : OccursAt(lit, s, q)}
    IN  IF hits = {} THEN 0
        ELSE LET q == CHOOSE q \in hits : \A r \in hits : q <= r
             IN  1 + CountLiteralFrom(lit, s, q + Len(lit))

CountLiteral(lit, s) == CountLiteralFrom(lit, s, 1)

\* The end position of a match of  <tag(?:\s[^>]*)?>  starting at p, or 0.
\* Either "<tag>" itself, or "<tag", one whitespace character, and then
\* everything up to the first ">" that follows.
OpenTagMatchEnd(tag, s, p) ==
    IF ~(p + 2 <= Len(s) /\ s[p] = "<" /\ s[p + 1] = tag) THEN 0
    ELSE IF s[p + 2] = ">" THEN p + 2
    ELSE IF s[p + 2] \in Whitespace
         THEN LET closers == {q \in (p + 3)..Len(s) : s[q] = ">"}
              IN  IF closers = {} THEN 0
                  ELSE CHOOSE q \in closers : \A r \in closers : q <= r
    ELSE 0

RECURSIVE CountOpenFrom(_, _, _)
\* len(re.findall(r"<tag(?:\s[^>]*)?>", text)): non-overlapping matches;
\* the scan moves straight to the leftmost match at or after p.
CountOpenFrom(tag, s, p) ==
    LET hits == {q \in p..Len(s) : OpenTagMatchEnd(tag, s, q) > 0}
    IN  IF hits = {} THEN 0
        ELSE LET q == CHOOSE q \in hits : \A r \in hits : q <= r
             IN  1 + CountOpenFrom(tag, s, OpenTagMatchEnd(tag, s, q) + 1)

CountOpen(tag, s) == CountOpenFrom(tag, s, 1)

CountClose(tag, s) == CountLiteral(CloseTag(tag), s)

\* One iteration of the loop over the tags.
CloseOneTag(tag, s) ==
    LET open_count  == CountOpen(tag, s)
        close_count == CountClose(tag, s)
    IN  IF open_count > close_count
        THEN s \o Repeat(CloseTag(tag), open_count - close_count)
        ELSE s

CloseOpenTags(s) == CloseOneTag(Tags[3], CloseOneTag(Tags[2], CloseOneTag(Tags[1], s)))

----------------------------------------------------------------------------
(* news_fetcher._normalize *)

Uppercase ==
    <<"A", "B", "C", "D", "E", "F", "G", "H", "I", "J", "K", "L", "M",
      "N", "O", "P", "Q", "R", "S", "T", "U", "V", "W", "X", "Y", "Z">>
Lowercase ==
    <<"a", "b", "c", "d", "e", "f", "g", "h", "i", "j", "k", "l", "m",
      "n", "o", "p", "q", "r", "s", "t", "u", "v", "w", "x", "y", "z">>
Digits == {"0", "1", "2", "3", "4", "5", "6", "7", "8", "9"}

\* str.lower() on one character.
LowerChar(c) ==
    IF \E k \in 1..Len(Uppercase) : Uppercase[k] = c
    THEN Lowercase[CHOOSE k \in 1..Len(Uppercase) : Uppercase[k] = c]
    ELSE c

\* The regular expression class \w.
IsWordChar(c) ==
    \/ \E k \in 1..Len(Lowercase) : Lowercase[k] = c \/ Uppercase[k] = c
    \/ c \in Digits
    \/ c = "_"

NotPunctuation(c) == IsWordChar(c) \/ c \in Whitespace

RECURSIVE WordsFrom(_, _, _)
\* str.split(): the maximal runs of non-whitespace characters; `word` is
\* the run being read, p the scan position.
WordsFrom(s, word, p) ==
    IF p > Len(s) THEN (IF word = <<>> THEN <<>> ELSE <<word>>)
    ELSE IF s[p] \in Whitespace
         THEN (IF word = <<>> THEN <<>> ELSE <<word>>) \o WordsFrom(s, <<>>, p + 1)
         ELSE WordsFrom(s, Append(word, s[p]), p + 1)

STOPWORDS ==
    { <<"a">>, <<"a", "n">>, <<"t", "h", "e">>, <<"i", "n">>, <<"o", "n">>,
      <<"a", "t">>, <<"t", "o">>, <<"f", "o", "r">>, <<"o", "f">>,
      <<"a", "n", "d">>, <<"o", "r">>, <<"b", "u", "t">>, <<"i", "s">>,
      <<"a", "r", "e">>, <<"w", "a", "s">>, <<"w", "e", "r", "e">>,
      <<"b", "e">>, <<"b", "e", "e", "n">>, <<"b", "y">>,
      <<"f", "r", "o", "m">>, <<"w", "i", "t", "h">>, <<"t", "h", "a", "t">>,
      <<"t", "h", "i", "s">>, <<"i", "t">>, <<"i", "t", "s">>, <<"a", "s">>,
      <<"h", "a", "s">>, <<"h", "a", "v", "e">>, <<"h", "a", "d">>,
      <<"w", "i", "l", "l">>, <<"c", "a", "n">>, <<"m", "a", "y">> }

NotStopword(w) == w \notin STOPWORDS

RECURSIVE JoinSpace(_)
\* " ".join(words)
JoinSpace(ws) ==
    IF ws = <<>> THEN <<>>
    ELSE IF Len(ws) = 1 THEN ws[1]
    ELSE ws[1] \o <<SP>> \o JoinSpace(Tail(ws))

\* Lowercase, strip punctuation, drop stopwords, re-join with single spaces.
NormalizeText(title) ==
    LET lowered == [k \in 1..Len(title) |-> LowerChar(title[k])]
        stripped == SelectSeq(lowered, NotPunctuation)
        words == SelectSeq(WordsFrom(stripped, <<>>, 1), NotStopword)
    IN  JoinSpace(words)

----------------------------------------------------------------------------
(* difflib.SequenceMatcher(None, a, b).ratio(), for sequences too short   *)
(* for the popularity heuristic (fewer than 200 elements), as the         *)
(* standard library computes it.  Ranges are a[alo..ahi-1], b[blo..bhi-1]. *)

RECURSIVE RunLength(_, _, _, _, _, _)
\* The length of the common run of a and b starting at a[i], b[j].
RunLength(a, b, i, j, ahi, bhi) ==
    IF i < ahi /\ j < bhi /\ a[i] = b[j]
    THEN 1 + RunLength(a, b, i + 1, j + 1, ahi, bhi)
    ELSE 0

\* find_longest_match: the longest matching block; of the longest ones
\* the one that starts earliest in a, and of those the earliest in b.
\* <<i, j, k>>, with k = 0 when nothing matches.
FindLongestMatch(a, b, alo, ahi, blo, bhi) ==
    LET starts == (alo..(ahi - 1)) \X (blo..(bhi - 1))
        size(p) == RunLength(a, b, p[1], p[2], ahi, bhi)
        best == IF starts = {} THEN 0
                ELSE LET sizes == {size(p) : p \in starts}
                     IN  CHOOSE k \in sizes : \A m \in sizes : m <= k
    IN  IF best = 0 THEN <<alo, blo, 0>>
        ELSE LET longest == {p \in starts : size(p) = best}
                 first == CHOOSE p \in longest :
                             \A q \in longest :
                                \/ p[1] < q[1]
                                \/ (p[1] = q[1] /\ p[2] <= q[2])
             IN  <<first[1], first[2], best>>

RECURSIVE MatchedSize(_, _, _, _, _, _)
\* get_matching_blocks: the sizes of the longest block and of the blocks
\* found, recursively, to its left and to its right, summed.
MatchedSize(a, b, alo, ahi, blo, bhi) ==
    LET m == FindLongestMatch(a, b, alo, ahi, blo, bhi)
        i == m[1]
        j == m[2]
        k == m[3]
    IN  IF k = 0 THEN 0
        ELSE k
             + (IF alo < i /\ blo < j THEN MatchedSize(a, b, alo, i, blo, j) ELSE 0)
             + (IF i + k < ahi /\ j + k < bhi
                THEN MatchedSize(a, b, i + k, ahi, j + k, bhi) ELSE 0)

\* The number of matched characters, M in ratio() = 2.0 * M / T.
MatchCount(a, b) == MatchedSize(a, b, 1, Len(a) + 1, 1, Len(b) + 1)

\* The titles the article lists are drawn from.
TitlePool ==
    { <<"D", "e", "a", "l", SP, "n", "e", "w", "!">>,
      <<"T", "h", "e", SP, "d", "a", "m", SP, "w", "a", "r">>,
      <<"D", "a", "m", SP, "a", "i", "d">>,
      <<"A", "i", "d", SP, "w", "a", "r">>,
      <<"D", "A", "M", SP, "A", "I", "D", ".">>,
      <<"T", "h", "e">> }

\* _normalize and the match count, worked out once for the pool's titles
\* and looked up from then on.
NormalizeTable == [t \in TitlePool |-> NormalizeText(t)]
MatchTable ==
    LET keys == {NormalizeTable[t] : t \in TitlePool}
    IN  [p \in keys \X keys |-> MatchCount(p[1], p[2])]

Normalize(title) ==
    IF title \in TitlePool THEN NormalizeTable[title] ELSE NormalizeText(title)

Matches(a, b) ==
    IF <<a, b>> \in DOMAIN MatchTable THEN MatchTable[<<a, b>>] ELSE MatchCount(a, b)

\* The comparison goes the wrong way.
RatioAtMost(a, b, percent) ==
    LET length == Len(a) + Len(b)
    IN  IF length = 0 THEN 100 <= percent
        ELSE 200 * Matches(a, b) <= percent * length

\* ratio() >= threshold, the threshold given in hundredths: ratio() is
\* 2.0 * matches / length, and 1.0 when both sequences are empty.  With
\* sequences this short the floating-point comparison agrees with the
\* exact one.
RatioAtLeast(a, b, percent) ==
    LET length == Len(a) + Len(b)
    IN  IF length = 0 THEN 100 >= percent
        ELSE 200 * Matches(a, b) >= percent * length

----------------------------------------------------------------------------
(* news_fetcher._deduplicate *)

MaxItems == 4

\* Thresholds, in hundredths; 65 is the default.
Thresholds == {50, 65, 100}

\* The article lists of n items: titles from the pool, each article with
\* its own url.
ArticleLists(n) ==
    { [k \in 1..n |-> [title |-> f[k], url |-> k]] : f \in [1..n -> TitlePool] }

Inputs(most) == UNION { ArticleLists(n) : n \in 0..most }

\* Only the key kept last is compared.
IsDuplicateOfLast(norm, kept_normalized, th) ==
    /\ kept_normalized # <<>>
    /\ RatioAtLeast(norm, kept_normalized[Len(kept_normalized)], th)

\* The inner loop: is_dup, after comparing norm with every key kept so far.
IsDuplicate(norm, kept_normalized, th) ==
    \E k \in 1..Len(kept_normalized) : RatioAtLeast(norm, kept_normalized[k], th)

RECURSIVE DedupLoop(_, _, _, _, _)
\* The outer loop from article i on; returns kept.
DedupLoop(arts, i, kept_list, kept_normalized, th) ==
    IF i > Len(arts) THEN kept_list
    ELSE LET norm == Normalize(arts[i].title)
         IN  IF IsDuplicate(norm, kept_normalized, th)
             THEN DedupLoop(arts, i + 1, kept_list, kept_normalized, th)
             ELSE DedupLoop(arts, i + 1, Append(kept_list, arts[i]),
                            Append(kept_normalized, norm), th)

Deduplicate(arts, th) == DedupLoop(arts, 1, <<>>, <<>>, th)

\* _deduplicate is not part of the run.
DedupIdle ==
    /\ articles = <<>>
    /\ threshold = 65
    /\ kept = <<>>
    /\ dedup_pc = "idle"

\* kept = _deduplicate(articles, th)
DeduplicateCall ==
    /\ dedup_pc = "call"
    /\ kept' = Deduplicate(articles, threshold)
    /\ dedup_pc' = "returned"
    /\ UNCHANGED <<articles, threshold>>
    /\ UNCHANGED notDedup

DedupNext == DeduplicateCall

----------------------------------------------------------------------------
(* Documents *)

MaxPieces == 4
MaxLen == 6

\* What documents are assembled from: the renderer's inline tags, plain
\* text, a line break, and the blank line that separates blocks.
Pieces ==
    { <<"<", "i", ">">>, <<"<", "/", "i", ">">>,
      <<"<", "a", SP, "x", ">">>, <<"<", "/", "a", ">">>,
      <<"x">>, <<NL>>, BlankLine }

RECURSIVE DocsUpTo(_)
DocsUpTo(n) ==
    IF n = 0 THEN {<<>>}
    ELSE LET shorter == DocsUpTo(n - 1)
         IN  shorter \cup {d \o p : d \in shorter, p \in Pieces}


----------------------------------------------------------------------------
(* news_fetcher.fetch_ethiopia_news *)

RSS_MAX_ARTICLES == 6

\* The default threshold of _deduplicate, in hundredths.
DefaultThreshold == 65

MaxFeeds == 2
MaxEntries == 2

\* The titles the feeds' entries carry, in turn: two of them differ only
\* in case and punctuation.
FeedTitles ==
    << <<"D", "a", "m", SP, "a", "i", "d">>,
       <<"A", "i", "d", SP, "w", "a", "r">>,
       <<"D", "A", "M", SP, "A", "I", "D", ".">> >>

\* The decimal digit n as a character.
DigitChar(n) == <<"0", "1", "2", "3", "4", "5", "6", "7", "8", "9">>[n + 1]

\* Entry j of feed f, as the helpers of the loop body read it: its title,
\* its link, its longest text with the HTML stripped, its source name and
\* its date, and whether building the article from it raises.  Every
\* second entry has no text.
Entry(f, j, malformed) ==
    [title |-> FeedTitles[((f + j) % Len(FeedTitles)) + 1],
     link |-> <<"u", DigitChar(f), DigitChar(j)>>,
     description |-> IF j % 2 = 1 THEN <<"n", "e", "w", "s">> ELSE <<>>,
     source |-> <<"E", "N", "A">>,
     published |-> <<"M", "a", "y", SP, "0", "1">>,
     raises |-> malformed]

\* feedparser.parse on feed f: it raises, or yields a feed with the bozo
\* flag and a list of entries.
FeedsAt(f) ==
    {[outcome |-> "raises", bozo |-> FALSE, entries |-> <<>>]}
    \cup { [outcome |-> "parsed", bozo |-> b,
            entries |-> [j \in 1..n |-> Entry(f, j, bad[j])]] :
            b \in BOOLEAN, n \in 0..MaxEntries, bad \in [1..MaxEntries -> BOOLEAN] }

RECURSIVE FeedListsOf(_)
\* What the first n feeds can yield.
FeedListsOf(n) ==
    IF n = 0 THEN {<<>>}
    ELSE { Append(fs, feed) : fs \in FeedListsOf(n - 1), feed \in FeedsAt(n) }

FeedLists(most) == UNION { FeedListsOf(n) : n \in 0..most }

\* The values of the max_articles argument; 0 stands for None.
ArticleLimits == {0, 2}

\* fetch_ethiopia_news is not part of the run.
FetchIdle ==
    /\ feeds = <<>>
    /\ max_articles = 0
    /\ feed_idx = 1
    /\ entry_idx = 1
    /\ all_articles = <<>>
    /\ fetched = <<>>
    /\ fetch_pc = "idle"

\* The dict appended for a well-formed entry.
Article(entry) ==
    [title |-> entry.title,
     description |-> entry.description,
     url |-> entry.link,
     source |-> entry.source,
     published_at |-> entry.published]

\* The except clause ends the whole run.
StopAfterError(f) == Len(feeds) + 1

\* The except clause sits in the body of the for loop over the feeds: the
\* loop goes on with the next feed.
NextFeedAfterError(f) == f + 1

\* feedparser.parse(feed_url) and the bozo test.
ParseFeed ==
    /\ fetch_pc = "feed"
    /\ feed_idx <= Len(feeds)
    /\ LET feed == feeds[feed_idx]
       IN  IF feed.outcome = "raises"
           THEN /\ feed_idx' = NextFeedAfterError(feed_idx)
                /\ UNCHANGED fetch_pc
           ELSE IF feed.bozo /\ feed.entries = <<>>
           THEN \* continue
                /\ feed_idx' = feed_idx + 1
                /\ UNCHANGED fetch_pc
           ELSE IF feed.entries = <<>>
           THEN \* the loop over the entries has nothing to do
                /\ feed_idx' = feed_idx + 1
                /\ UNCHANGED fetch_pc
           ELSE /\ fetch_pc' = "entry"
                /\ UNCHANGED feed_idx
    /\ entry_idx' = 1
    /\ UNCHANGED <<feeds, max_articles, all_articles, fetched>>
    /\ UNCHANGED notFetch

\* One pass of the loop over feed.entries: the article is appended, or
\* building it raises and the except clause of the feed's try takes over.
ProcessEntry ==
    /\ fetch_pc = "entry"
    /\ LET feed == feeds[feed_idx]
           entry == feed.entries[entry_idx]
       IN  IF entry.raises
           THEN /\ feed_idx' = NextFeedAfterError(feed_idx)
                /\ entry_idx' = 1
                /\ fetch_pc' = "feed"
                /\ UNCHANGED all_articles
           ELSE /\ all_articles' = Append(all_articles, Article(entry))
                /\ IF entry_idx < Len(feed.entries)
                   THEN /\ entry_idx' = entry_idx + 1
                        /\ UNCHANGED <<feed_idx, fetch_pc>>
                   ELSE /\ feed_idx' = feed_idx + 1
                        /\ entry_idx' = 1
                        /\ fetch_pc' = "feed"
    /\ UNCHANGED <<feeds, max_articles, fetched>>
    /\ UNCHANGED notFetch

\* count = max_articles or config.RSS_MAX_ARTICLES
Count(arg) == IF arg = 0 THEN RSS_MAX_ARTICLES ELSE arg

\* After the last feed: [] when nothing was collected, else the first
\* count of the de-duplicated candidates.
FetchReturn ==
    /\ fetch_pc = "feed"
    /\ feed_idx > Len(feeds)
    /\ fetched' = IF all_articles = <<>> THEN <<>>
                   ELSE Take(Deduplicate(all_articles, DefaultThreshold),
                             Count(max_articles))
    /\ fetch_pc' = "returned"
    /\ UNCHANGED <<feeds, max_articles, feed_idx, entry_idx, all_articles>>
    /\ UNCHANGED notFetch

FetchNext ==
    \/ ParseFeed
    \/ ProcessEntry
    \/ FetchReturn

----------------------------------------------------------------------------
(* summarizer.summarize_batch *)

\* The characters _summarize_extractive keeps before the ellipsis.
ExtractiveBudget == 500

\* The characters summarize_batch keeps when there is no extractive engine.
BatchBudget == 800

\* Texts shorter than this are not handed to the extractive engine.
MinExtractLength == 100

Ellipsis == <<".", ".", ".">>

MaxBatch == 2

\* The lengths of the descriptions: empty, just below and at the minimum
\* for extraction, just over either budget.
BodyLengths == {0, 99, 100, 501, 801}

Body(n) == [k \in 1..n |-> "x"]

Batches(most) ==
    UNION { { [i \in 1..n |-> [title |-> <<"t">>, description |-> Body(len[i])]] :
                len \in [1..n -> BodyLengths] } : n \in 0..most }

\* The elements a JSON array can hold, by their JSON text: a string with
\* spaces around it, a number, null.
JsonElements ==
    { [type |-> "string", text |-> <<SP, "r", SP>>],
      [type |-> "number", text |-> <<"7">>],
      [type |-> "null", text |-> <<"n", "u", "l", "l">>] }

JsonString == [type |-> "string", text |-> <<"s">>]

\* What the generate_content call can come to for n articles: it raises,
\* the response is None, its text is empty, its text is not JSON, or its
\* text is JSON for an object, a string, or an array of n - 1, n or n + 1
\* elements.
Responses(n) ==
    { [kind |-> k, type |-> "none", items |-> <<>>] :
        k \in {"raises", "no_response", "empty_text", "not_json"} }
    \cup { [kind |-> "json", type |-> t, items |-> <<>>] : t \in {"object", "string"} }
    \cup { [kind |-> "json", type |-> "list", items |-> [i \in 1..m |-> JsonString]] :
             m \in {n + 1} \cup ({n - 1} \cap Nat) }
    \cup { [kind |-> "json", type |-> "list", items |-> its] :
             its \in [1..n -> JsonElements] }

NoResponse == [kind |-> "none", type |-> "none", items |-> <<>>]

\* The outcomes of the sentence ranking: every sentence is selected (the
\* summary is the text), none is, or the engine raises (as it does when
\* config.MAX_SUMMARY_SENTENCES is not defined).
EngineOutcomes == {"all", "nothing", "raises"}

\* summarize_batch is not part of the run.
CondIdle ==
    /\ batch = <<>>
    /\ mode = "undefined"
    /\ model_ready = FALSE
    /\ parser_ready = FALSE
    /\ response = NoResponse
    /\ engine = <<>>
    /\ branches = <<>>
    /\ condensed = <<>>
    /\ cond_pc = "idle"

\* str(s) of a parsed JSON element.
PyStr(element) ==
    IF element.type = "null" THEN <<"N", "o", "n", "e">> ELSE element.text

RECURSIVE LStrip(_)
LStrip(s) == IF s # <<>> /\ Head(s) \in Whitespace THEN LStrip(Tail(s)) ELSE s

RECURSIVE RStrip(_)
RStrip(s) ==
    IF s # <<>> /\ s[Len(s)] \in Whitespace THEN RStrip(SubSeq(s, 1, Len(s) - 1)) ELSE s

\* str.strip()
Strip(s) == RStrip(LStrip(s))

\* One character more than the budget is kept.
TruncateLoose(body, budget) == Take(body, budget + 1) \o Ellipsis

\* text[:budget] + "..."
Truncate(body, budget) == Take(body, budget) \o Ellipsis

\* Every JSON value is accepted.
AcceptsAnything(resp, n) == resp.kind = "json"

\* The tests on the response: response and response.text, json.loads,
\* isinstance(summaries, list) and len(summaries) == len(articles).
Accepts(resp, n) ==
    /\ resp.kind = "json"
    /\ resp.type = "list"
    /\ Len(resp.items) = n

\* The statement of _summarize_extractive that produces the result.
ExtractiveBranch(body, outcome) ==
    IF body = <<>> \/ Len(body) < MinExtractLength \/ ~parser_ready THEN "truncated"
    ELSE IF outcome = "all" THEN "extracted"
    ELSE "truncated"

\* _summarize_extractive(text), the engine's outcome given.
SummarizeExtractive(body, outcome) ==
    IF body = <<>> \/ Len(body) < MinExtractLength \/ ~parser_ready
    THEN Truncate(body, ExtractiveBudget)
    ELSE IF outcome = "raises" THEN Truncate(body, ExtractiveBudget)
    ELSE LET summary == IF outcome = "all" THEN body ELSE <<>>
         IN  IF summary # <<>> THEN summary ELSE Truncate(body, ExtractiveBudget)

\* The engine is asked only for texts it is handed.
EngineRuns(arts) ==
    { out \in [1..Len(arts) -> EngineOutcomes \cup {"not_run"}] :
        \A i \in 1..Len(arts) :
            out[i] = "not_run" <=>
                (arts[i].description = <<>>
                 \/ Len(arts[i].description) < MinExtractLength
                 \/ ~parser_ready) }

\* for i, s in enumerate(summaries): articles[i]["description"] = str(s).strip()
ApplySummaries(arts, items) ==
    [i \in 1..Len(arts) |->
        IF i <= Len(items)
        THEN [arts[i] EXCEPT !.description = Strip(PyStr(items[i]))]
        ELSE arts[i]]

\* for article in articles: article["description"] = _summarize_extractive(...)
ExtractAll(arts, out) ==
    [i \in 1..Len(arts) |->
        [arts[i] EXCEPT !.description = SummarizeExtractive(arts[i].description, out[i])]]

\* summarize_batch up to the choice of the path.
SummarizeBatch ==
    /\ cond_pc = "entry"
    /\ IF batch = <<>> THEN cond_pc' = "returned"
       ELSE IF mode = "undefined" THEN cond_pc' = "raised"
       ELSE IF mode = "generative" /\ model_ready THEN cond_pc' = "generate"
       ELSE cond_pc' = "local"
    /\ UNCHANGED <<batch, mode, model_ready, parser_ready, response, engine, branches,
                   condensed>>
    /\ UNCHANGED notCond

\* _summarize_batch_generative, called by summarize_batch or on its own:
\* the try block.  An accepted response is applied and the function
\* returns; anything else leaves the articles to the fallback loop.
GenerateContent ==
    /\ cond_pc \in {"generate", "entry_generative"}
    /\ \E resp \in Responses(Len(batch)) :
          /\ response' = resp
          /\ IF Accepts(resp, Len(batch))
             THEN /\ condensed' = ApplySummaries(condensed, resp.items)
                  /\ branches' = [i \in 1..Len(batch) |-> "rephrased"]
                  /\ cond_pc' = "returned"
             ELSE /\ cond_pc' = "fallback"
                  /\ UNCHANGED <<condensed, branches>>
    /\ UNCHANGED <<batch, mode, model_ready, parser_ready, engine>>
    /\ UNCHANGED notCond

\* The final fallback of _summarize_batch_generative.
FallbackLoop ==
    /\ cond_pc = "fallback"
    /\ \E out \in EngineRuns(condensed) :
          /\ engine' = out
          /\ condensed' = ExtractAll(condensed, out)
          /\ branches' = [i \in 1..Len(batch) |->
                            ExtractiveBranch(condensed[i].description, out[i])]
    /\ cond_pc' = "returned"
    /\ UNCHANGED <<batch, mode, model_ready, parser_ready, response>>
    /\ UNCHANGED notCond

\* The loop of summarize_batch when the generative path is not taken.
LocalLoop ==
    /\ cond_pc = "local"
    /\ IF parser_ready
       THEN \E out \in EngineRuns(condensed) :
               /\ engine' = out
               /\ condensed' = ExtractAll(condensed, out)
               /\ branches' = [i \in 1..Len(batch) |->
                                 ExtractiveBranch(condensed[i].description, out[i])]
       ELSE /\ engine' = [i \in 1..Len(batch) |-> "not_run"]
            /\ condensed' = [i \in 1..Len(batch) |->
                               [condensed[i] EXCEPT
                                   !.description = Truncate(@, BatchBudget)]]
            /\ branches' = [i \in 1..Len(batch) |-> "truncated_batch"]
    /\ cond_pc' = "returned"
    /\ UNCHANGED <<batch, mode, model_ready, parser_ready, response>>
    /\ UNCHANGED notCond

CondNext ==
    \/ SummarizeBatch
    \/ GenerateContent
    \/ FallbackLoop
    \/ LocalLoop

----------------------------------------------------------------------------
(* message_formatter.format_news_message *)

\* Every character outside ASCII (the emoji, the rules, the middle dot)
\* is written as this one, one per code point.
Sym == "*"

\* datetime.now(timezone.utc).strftime("%A, %B %d, %Y"), on one day.
Today ==
    << "T", "u", "e", "s", "d", "a", "y", ",", SP, "N", "o", "v", "e", "m",
       "b", "e", "r", SP, "0", "3", ",", SP, "2", "0", "2", "6" >>

HeaderTitle ==
    << Sym, SP, SP, "<", "b", ">", "P", "A", "P", "I", SP, "N", "E", "W", "S",
       "<", "/", "b", ">" >>

HeaderIntro ==
    << "Y", "o", "u", "r", SP, "d", "a", "i", "l", "y", SP, "u", "p", "d", "a",
       "t", "e", "s", SP, "f", "r", "o", "m", SP, "t", "h", "e", SP, "H", "o",
       "r", "n", SP, Sym >>

HeaderLead ==
    << "H", "e", "r", "e", SP, "a", "r", "e", SP, "t", "o", "d", "a", "y", "'",
       "s", SP, "t", "o", "p", SP, "c", "u", "r", "a", "t", "e", "d", SP, "n",
       "e", "w", "s", SP, "f", "o", "r", SP, "y", "o", "u", "." >>

\* The heavy rule: 26 characters.
Rule == [k \in 1..26 |-> Sym]

\* The separator between two articles.
Separator ==
    << SP, SP, Sym, SP, Sym, SP, Sym, SP, Sym, SP, Sym, SP, Sym, SP, Sym, SP,
       Sym, SP, Sym, SP, Sym, SP, Sym, SP, Sym, SP, Sym >>

QuickTake ==
    << Sym, SP, "<", "b", ">", "Q", "u", "i", "c", "k", SP, "T", "a", "k", "e",
       SP, "(", "A", "I", ")", ":", "<", "/", "b", ">" >>

FooterLine ==
    << "<", "i", ">", "P", "a", "p", "i", SP, "N", "e", "w", "s", SP, Sym, SP,
       "d", "e", "l", "i", "v", "e", "r", "e", "d", SP, "d", "a", "i", "l",
       "y", "<", "/", "i", ">" >>

NoNewsLine ==
    << Sym, SP, SP, "N", "o", SP, "n", "e", "w", "s", SP, "a", "r", "t", "i",
       "c", "l", "e", "s", SP, "f", "o", "u", "n", "d", SP, "t", "o", "d", "a",
       "y", "." >>

TryAgainLine ==
    << "W", "e", "'", "l", "l", SP, "t", "r", "y", SP, "a", "g", "a", "i", "n",
       SP, "t", "o", "m", "o", "r", "r", "o", "w", SP, Sym, SP, "s", "t", "a",
       "y", SP, "t", "u", "n", "e", "d", "!" >>

Untitled ==
    << "U", "n", "t", "i", "t", "l", "e", "d" >>

Unknown ==
    << "U", "n", "k", "n", "o", "w", "n" >>

AnchorOpen ==
    << "<", "a", SP, "h", "r", "e", "f", "=", "\"" >>

AnchorMid ==
    << "\"", ">" >>

AnchorClose ==
    << "<", "/", "a", ">" >>

ItalicOpen ==
    << "<", "i", ">" >>

ItalicClose ==
    << "<", "/", "i", ">" >>

Amp ==
    << "&", "a", "m", "p", ";" >>

Lt ==
    << "&", "l", "t", ";" >>

Gt ==
    << "&", "g", "t", ";" >>

RECURSIVE Replace(_, _, _)
\* str.replace(old, new) for a one-character old.
Replace(s, old, new) ==
    IF s = <<>> THEN <<>>
    ELSE (IF Head(s) = old THEN new ELSE <<Head(s)>>) \o Replace(Tail(s), old, new)

\* _escape_html: the ampersand first, then the angle brackets.
EscapeHtml(field) == Replace(Replace(Replace(field, "&", Amp), "<", Lt), ">", Gt)

\* dict.get(name, default)
Field(article, name, default) ==
    IF name \in DOMAIN article THEN article[name] ELSE default

\* emoji_numbers[idx] if idx < len(emoji_numbers) else the small square;
\* idx counts from 1 here.  A keycap is its digit and two more code points.
NumEmoji(idx) ==
    IF idx <= 9 THEN <<DigitChar(idx), Sym, Sym>>
    ELSE IF idx = 10 THEN <<Sym>>
    ELSE <<Sym, Sym>>

RECURSIVE JoinLines(_)
\* "\n".join(lines)
JoinLines(lines) ==
    IF lines = <<>> THEN <<>>
    ELSE IF Len(lines) = 1 THEN lines[1]
    ELSE lines[1] \o <<NL>> \o JoinLines(Tail(lines))

\* The lines of the header.
HeaderLines ==
    << HeaderTitle, ItalicOpen \o Today \o ItalicClose, <<>>, HeaderIntro, HeaderLead,
       <<>>, Rule >>

\* The lines of article idx of items: the body of the for loop.
ArticleLines(items, idx) ==
    LET article == items[idx]
        title == EscapeHtml(Field(article, "title", Untitled))
        description == EscapeHtml(Field(article, "description", <<>>))
        url == Field(article, "url", <<>>)
        source == EscapeHtml(Field(article, "source", Unknown))
        published == Field(article, "published_at", <<>>)
    IN  << <<>>, <<>>,
           NumEmoji(idx) \o <<SP, SP>> \o AnchorOpen \o url \o AnchorMid \o title
               \o AnchorClose >>
        \o (IF description # <<>>
            THEN << QuickTake, ItalicOpen \o description \o ItalicClose >>
            ELSE <<>>)
        \o << <<Sym, SP>> \o source \o <<SP, SP, Sym, SP, SP, Sym, SP>> \o published >>
        \o (IF idx < Len(items) THEN << <<>>, Separator >> ELSE <<>>)

\* The lines of the footer.
FooterLines == << <<>>, <<>>, Rule, FooterLine >>

\* _no_news_fallback
NoNewsFallback ==
    HeaderTitle \o <<NL>> \o ItalicOpen \o Today \o ItalicClose \o BlankLine
    \o Rule \o BlankLine
    \o NoNewsLine \o BlankLine
    \o TryAgainLine \o BlankLine
    \o Rule \o <<NL>>
    \o FooterLine

\* format_news_message
FormatNewsMessage(items) ==
    IF items = <<>> THEN NoNewsFallback
    ELSE JoinLines(HeaderLines
                   \o Concat([idx \in 1..Len(items) |-> ArticleLines(items, idx)])
                   \o FooterLines)

\* format_news_message is not part of the run.
RenderIdle ==
    /\ render_items = <<>>
    /\ document = <<>>
    /\ render_pc = "idle"

\* The articles the renderer is tried on: every combination of field values
\* as a feed can supply them, plain ones and ones with the characters that
\* mean something in Telegram's HTML; and an article with only a url, for
\* which the defaults are used.
RenderArticles ==
    [title : { <<"D", "a", "m">>, <<"R", "&", "D">>, <<"<", "b", ">">>,
               <<"&", "l", "t", ";">> },
     description : { <<>>, <<"x", ">", "y">> },
     url : { <<"u">>, <<"u", "?", "a", "&", "b">>, <<"u", "\"", ">", "<", "i", ">">> },
     source : { <<"E", "N", "A">>, <<"A", "&", "B">> },
     published_at : { <<"M", "a", "y", SP, "0", "1">>, <<"<", "M", "a", "y", ">">> }]
    \cup { [url |-> <<"u">>] }

\* A plain article following another.
PlainArticle ==
    [title |-> <<"D", "a", "m">>, description |-> <<"x">>, url |-> <<"u">>,
     source |-> <<"E", "N", "A">>, published_at |-> <<"M", "a", "y", SP, "0", "1">>]

\* The lists: empty, one article, an article and a plain one in either order.
RenderLists ==
    { <<>> }
    \cup { <<a>> : a \in RenderArticles }
    \cup { <<a, PlainArticle>> : a \in RenderArticles }
    \cup { <<PlainArticle, a>> : a \in RenderArticles }

\* message = format_news_message(articles)
RenderCall ==
    /\ render_pc = "call"
    /\ document' = FormatNewsMessage(render_items)
    /\ render_pc' = "returned"
    /\ UNCHANGED render_items
    /\ UNCHANGED notRender

RenderNext == RenderCall

----------------------------------------------------------------------------
(* telegram_sender._split_message and the head of send_message *)

\* The locals of send_message and _send_async before the delivery starts.
SendIdle ==
    /\ path = "run"
    /\ part_idx = 1
    /\ attempt = 0
    /\ inflight = {}
    /\ events = <<>>
    /\ outcomes = <<>>
    /\ send_result = "none"
    /\ result = "none"
    /\ loop_closed = FALSE

ChunkStart(docs) ==
    /\ text \in docs
    /\ max_len \in 1..MaxLen
    /\ caller = "none"
    /\ pc = "entry"
    /\ chunks = <<>>
    /\ current = <<>>
    /\ split_parts = <<>>
    /\ flushed = <<>>
    /\ parts = <<>>

\* The first three statements of _split_message.
EnterSplit(who) ==
    /\ caller' = who
    /\ chunks' = SplitBlank(text)
    /\ split_parts' = <<>>
    /\ flushed' = <<>>
    /\ current' = <<>>
    /\ pc' = "loop"
    /\ UNCHANGED <<text, max_len, parts>>

\* _split_message(text, max_len) called on its own.
SplitMessageCall ==
    /\ pc = "entry"
    /\ EnterSplit("direct")
    /\ UNCHANGED notChunk

\* send_message: parts = _split_message(text, MAX_LEN) if len(text) > MAX_LEN else [text]
\* MAX_LEN is 4096 in the program; here it is max_len, which ranges over
\* the limits short documents can exceed.
SendMessageEntry ==
    /\ pc = "entry"
    /\ IF Len(text) > max_len
       THEN EnterSplit("send_message")
       ELSE /\ parts' = <<text>>
            /\ flushed' = <<text>>
            /\ caller' = "send_message"
            /\ pc' = "deliver"
            /\ UNCHANGED <<text, max_len, chunks, current, split_parts>>
    /\ UNCHANGED notChunk

\* candidate = (current + "\n\n" + chunk) if current else chunk
Candidate(cur, chunk) == IF cur # <<>> THEN cur \o BlankLine \o chunk ELSE chunk

\* Whether the candidate is committed to the accumulator.
Fits(candidate, limit) == Len(candidate) <= limit

\* A slice that is one character short.
RestartShort(chunk, limit) == Take(chunk, limit - 1)

\* The accumulator a block that does not fit starts.
Restart(chunk, limit) == Take(chunk, limit)

\* What a flush appends to the list of parts.
Finished(cur) == CloseOpenTags(cur)

\* One iteration of  for chunk in chunks.
SplitLoopStep ==
    /\ pc = "loop"
    /\ chunks # <<>>
    /\ LET chunk == Head(chunks)
           candidate == Candidate(current, chunk)
       IN  IF Fits(candidate, max_len)
           THEN /\ current' = candidate
                /\ UNCHANGED <<split_parts, flushed>>
           ELSE /\ IF current # <<>>
                   THEN /\ split_parts' = Append(split_parts, Finished(current))
                        /\ flushed' = Append(flushed, current)
                   ELSE UNCHANGED <<split_parts, flushed>>
                /\ current' = Restart(chunk, max_len)
    /\ chunks' = Tail(chunks)
    /\ UNCHANGED <<text, max_len, caller, pc, parts>>
    /\ UNCHANGED notChunk

\* The final flush and  return parts or [text[:max_len]].
SplitReturn ==
    /\ pc = "loop"
    /\ chunks = <<>>
    /\ LET final == IF current # <<>>
                    THEN Append(split_parts, Finished(current))
                    ELSE split_parts
           raw   == IF current # <<>> THEN Append(flushed, current) ELSE flushed
       IN  /\ split_parts' = final
           /\ parts' = IF final # <<>> THEN final ELSE <<Take(text, max_len)>>
           /\ flushed' = IF final # <<>> THEN raw ELSE <<Take(text, max_len)>>
    /\ pc' = IF caller = "send_message" THEN "deliver" ELSE "returned"
    /\ UNCHANGED <<text, max_len, caller, chunks, current>>
    /\ UNCHANGED notChunk

ChunkNext ==
    \/ SplitMessageCall
    \/ SendMessageEntry
    \/ SplitLoopStep
    \/ SplitReturn

----------------------------------------------------------------------------
(* telegram_sender.send_message (the delivery loops) and _send_async *)

MAX_RETRIES == 3

MaxSendBlocks == 3

\* The documents delivered: up to MaxSendBlocks blocks of plain text,
\* separated by blank lines.
SendDocuments == { JoinBlank([k \in 1..n |-> <<"x">>]) : n \in 0..MaxSendBlocks }

sendLocals == <<text, max_len, caller, chunks, current, split_parts, flushed, parts>>

\* One entry of the history: a call going out for a part ("send"), or what
\* _send_async returned for it ("return").
Event(kind, part, what) == [ev |-> kind, part |-> part, what |-> what]

\* How the call of one attempt ended.
Outcome(att, what) == [attempt |-> att, what |-> what]

Returned(value) == IF value THEN "True" ELSE "False"

\* for attempt in range(1, MAX_RETRIES + 1) also takes the next attempt.
LoopContinuesPastBudget(att) == att <= MAX_RETRIES

\* for attempt in range(1, MAX_RETRIES + 1): whether another attempt follows.
LoopContinues(att) == att < MAX_RETRIES

\* The loop goes on whatever _send_async returned.
NeverAborts(success) == FALSE

\* if not success: return False  (success is "True" or "False" here)
AbortsOnFailure(success) == success = "False"

\* asyncio.run(_send_async(part)) / loop.run_until_complete(_send_async(part)):
\* the coroutine starts, with attempt = 1.
StartSendAsync ==
    /\ pc = "deliver"
    /\ part_idx <= Len(parts)
    /\ pc' = "attempt"
    /\ attempt' = 1
    /\ send_result' = "none"
    /\ outcomes' = <<>>
    /\ UNCHANGED <<path, part_idx, inflight, events, result, loop_closed>>
    /\ UNCHANGED sendLocals
    /\ UNCHANGED notTelegram

\* asyncio.run raises RuntimeError (it is called while an event loop is
\* running, which it finds out before it starts the coroutine): the handler
\* makes a new event loop and starts the for loop again.
AsyncioRunRaises ==
    /\ pc = "deliver"
    /\ path = "run"
    /\ part_idx = 1
    /\ path' = "fallback"
    /\ UNCHANGED <<pc, part_idx, attempt, inflight, events, outcomes, send_result, result,
                   loop_closed>>
    /\ UNCHANGED sendLocals
    /\ UNCHANGED notTelegram

\* loop.run_until_complete raises in its turn: nothing catches it, the
\* finally clause closes the loop and send_message returns nothing.
FallbackRaises ==
    /\ pc = "deliver"
    /\ path = "fallback"
    /\ part_idx = 1
    /\ result' = "raised"
    /\ loop_closed' = TRUE
    /\ pc' = "done"
    /\ UNCHANGED <<path, part_idx, attempt, inflight, events, outcomes, send_result>>
    /\ UNCHANGED sendLocals
    /\ UNCHANGED notTelegram

\* The for loop is exhausted: return True.
AllPartsSent ==
    /\ pc = "deliver"
    /\ part_idx > Len(parts)
    /\ result' = "True"
    /\ loop_closed' = (path = "fallback")
    /\ pc' = "done"
    /\ UNCHANGED <<path, part_idx, attempt, inflight, events, outcomes, send_result>>
    /\ UNCHANGED sendLocals
    /\ UNCHANGED notTelegram

\* await bot.send_message(...): the call goes out.
BotSendMessage ==
    /\ pc = "attempt"
    /\ inflight' = inflight \cup {part_idx}
    /\ events' = Append(events, Event("send", part_idx, "call"))
    /\ pc' = "await"
    /\ UNCHANGED <<path, part_idx, attempt, outcomes, send_result, result, loop_closed>>
    /\ UNCHANGED sendLocals
    /\ UNCHANGED notTelegram

\* The call has returned or raised `what`.
CallEnds(what) ==
    /\ pc = "await"
    /\ inflight' = inflight \ {part_idx}
    /\ outcomes' = Append(outcomes, Outcome(attempt, what))
    /\ UNCHANGED <<path, part_idx, result, loop_closed>>
    /\ UNCHANGED sendLocals
    /\ UNCHANGED notTelegram

\* _send_async returns `value`.
ReturnFromSendAsync(value) ==
    /\ send_result' = Returned(value)
    /\ events' = Append(events, Event("return", part_idx, Returned(value)))
    /\ pc' = "async_returned"
    /\ UNCHANGED attempt

\* The handler has slept; the attempt loop goes on, or ends in return False.
RetryOrGiveUp ==
    IF LoopContinues(attempt)
    THEN /\ attempt' = attempt + 1
         /\ pc' = "attempt"
         /\ UNCHANGED <<events, send_result>>
    ELSE ReturnFromSendAsync(FALSE)

\* The call succeeds: return True.
SendSucceeds ==
    /\ CallEnds("ok")
    /\ ReturnFromSendAsync(TRUE)

\* except RetryAfter: sleep for the time asked, then the next attempt.
OnRetryAfter ==
    /\ CallEnds("RetryAfter")
    /\ RetryOrGiveUp

\* except TimedOut: sleep 2 * attempt, then the next attempt.
OnTimedOut ==
    /\ CallEnds("TimedOut")
    /\ RetryOrGiveUp

\* except TelegramError: return False on the last attempt, else sleep 2.
OnTelegramError ==
    /\ CallEnds("TelegramError")
    /\ IF attempt = MAX_RETRIES
       THEN ReturnFromSendAsync(FALSE)
       ELSE RetryOrGiveUp

\* except Exception: return False.
OnUnexpectedError ==
    /\ CallEnds("Exception")
    /\ ReturnFromSendAsync(FALSE)

\* success = ...; if not success: return False; else the next part.
CheckSuccess ==
    /\ pc = "async_returned"
    /\ IF AbortsOnFailure(send_result)
       THEN /\ result' = "False"
            /\ loop_closed' = (path = "fallback")
            /\ pc' = "done"
            /\ UNCHANGED part_idx
       ELSE /\ part_idx' = part_idx + 1
            /\ pc' = "deliver"
            /\ UNCHANGED <<result, loop_closed>>
    /\ UNCHANGED <<path, attempt, inflight, events, outcomes, send_result>>
    /\ UNCHANGED sendLocals
    /\ UNCHANGED notTelegram

SendNext ==
    \/ SendMessageEntry
    \/ SplitLoopStep
    \/ SplitReturn
    \/ StartSendAsync
    \/ AsyncioRunRaises
    \/ FallbackRaises
    \/ AllPartsSent
    \/ BotSendMessage
    \/ SendSucceeds
    \/ OnRetryAfter
    \/ OnTimedOut
    \/ OnTelegramError
    \/ OnUnexpectedError
    \/ CheckSuccess

----------------------------------------------------------------------------
(* The similarity ratio on its own *)

MaxKeyLen == 3

KeyAlphabet == {"a", "b", "c"}

RECURSIVE StringsUpTo(_)
StringsUpTo(n) ==
    IF n = 0 THEN {<<>>}
    ELSE LET shorter == StringsUpTo(n - 1)
         IN  shorter \cup {Append(k, c) : k \in shorter, c \in KeyAlphabet}

\* The normalized keys of at most n characters: the strings _normalize
\* leaves as they are.
KeysUpTo(n) == {k \in StringsUpTo(n) : NormalizeText(k) = k}

\* ratio(): 2.0 * M / T as the fraction <<2 * M, T>>, and 1.0 when both
\* sequences are empty.
Ratio(a, b) ==
    LET length == Len(a) + Len(b)
    IN  IF length = 0 THEN <<1, 1>> ELSE <<2 * Matches(a, b), length>>

\* No ratio is asked for.
RatioIdle ==
    /\ key_a = <<>>
    /\ key_b = <<>>
    /\ ratio_ab = <<1, 1>>
    /\ ratio_ba = <<1, 1>>
    /\ ratio_pc = "idle"

\* The ratio of the two keys, taken both ways round.
RatioCall ==
    /\ ratio_pc = "call"
    /\ ratio_ab' = Ratio(key_a, key_b)
    /\ ratio_ba' = Ratio(key_b, key_a)
    /\ ratio_pc' = "returned"
    /\ UNCHANGED <<key_a, key_b>>
    /\ UNCHANGED notRatio

RatioNext == RatioCall

----------------------------------------------------------------------------
(* main.run_daily_job *)

\* MAX_LEN of send_message, scaled down to the documents of this model so
\* that they are split as documents over 4096 characters are.
JobMaxLen == 160

\* run_daily_job is not part of the run.
JobIdle ==
    /\ job_items = <<>>
    /\ message = <<>>
    /\ job_success = "none"
    /\ job_pc = "idle"

\* articles = fetch_ethiopia_news(): the call.
JobFetch ==
    /\ job_pc = "start"
    /\ fetch_pc' = "feed"
    /\ job_pc' = "fetching"
    /\ UNCHANGED <<feeds, max_articles, feed_idx, entry_idx, all_articles, fetched>>
    /\ UNCHANGED <<job_items, message, job_success>>
    /\ UNCHANGED <<chunkVars, sendVars, dedupVars, condVars, ratioVars, renderVars>>

\* message = format_news_message(articles), once fetch_ethiopia_news has
\* returned.
JobFormat ==
    /\ job_pc = "fetching"
    /\ fetch_pc = "returned"
    /\ job_items' = fetched
    /\ message' = FormatNewsMessage(fetched)
    /\ job_pc' = "formatted"
    /\ UNCHANGED job_success
    /\ UNCHANGED notJob

\* success = send_message(message): the call.
JobSend ==
    /\ job_pc = "formatted"
    /\ text' = message
    /\ pc' = "entry"
    /\ job_pc' = "sending"
    /\ UNCHANGED <<max_len, caller, chunks, current, split_parts, flushed, parts>>
    /\ UNCHANGED <<job_items, message, job_success>>
    /\ UNCHANGED <<sendVars, dedupVars, fetchVars, condVars, ratioVars, renderVars>>

\* send_message has returned, or raised: run_daily_job returns its result,
\* or the exception leaves run_daily_job.
JobReturn ==
    /\ job_pc = "sending"
    /\ pc = "done"
    /\ job_success' = result
    /\ job_pc' = IF result = "raised" THEN "raised" ELSE "done"
    /\ UNCHANGED <<job_items, message>>
    /\ UNCHANGED notJob

\* run_daily_job and, between its calls, the steps of the functions it
\* calls.
JobNext ==
    \/ JobFetch
    \/ (job_pc = "fetching" /\ FetchNext)
    \/ JobFormat
    \/ JobSend
    \/ (job_pc = "sending" /\ SendNext)
    \/ JobReturn

----------------------------------------------------------------------------
(* Specifications: one per part of the program, each starting from the    *)
(* inputs of that part with the rest of the program at rest.              *)

\* No document: send_message is not part of the run.
TelegramIdle == ChunkStart({<<>>}) /\ max_len = 1 /\ SendIdle

\* _split_message, called on its own or by send_message, on every document.
ChunkInit == ChunkStart(DocsUpTo(MaxPieces)) /\ SendIdle /\ DedupIdle /\ FetchIdle /\ CondIdle /\ RatioIdle /\ JobIdle /\ RenderIdle

SpecChunk == ChunkInit /\ [][ChunkNext]_vars

\* send_message, from the split to the last delivery.
SendInit == ChunkStart(SendDocuments) /\ SendIdle /\ DedupIdle /\ FetchIdle /\ CondIdle /\ RatioIdle /\ JobIdle /\ RenderIdle

SpecSend == SendInit /\ [][SendNext]_vars

\* Each call, sleep and handler returns: the steps of send_message are
\* taken as long as one is possible.
FairSpecSend == SpecSend /\ WF_vars(SendNext)

\* _deduplicate on every article list and threshold.
DedupInit ==
    /\ articles \in Inputs(MaxItems)
    /\ threshold \in Thresholds
    /\ kept = <<>>
    /\ dedup_pc = "call"
    /\ TelegramIdle
    /\ FetchIdle
    /\ CondIdle
    /\ RatioIdle
    /\ JobIdle
    /\ RenderIdle

SpecDedup == DedupInit /\ [][DedupNext]_vars

\* fetch_ethiopia_news on every outcome of the feeds.
FetchInit ==
    /\ feeds \in FeedLists(MaxFeeds)
    /\ max_articles \in ArticleLimits
    /\ feed_idx = 1
    /\ entry_idx = 1
    /\ all_articles = <<>>
    /\ fetched = <<>>
    /\ fetch_pc = "feed"
    /\ TelegramIdle
    /\ DedupIdle
    /\ CondIdle
    /\ RatioIdle
    /\ JobIdle
    /\ RenderIdle

SpecFetch == FetchInit /\ [][FetchNext]_vars

\* summarize_batch, and _summarize_batch_generative called on its own, on
\* every batch and configuration.
CondInit ==
    /\ batch \in Batches(MaxBatch)
    /\ mode \in {"generative", "extractive", "undefined"}
    /\ model_ready \in BOOLEAN
    /\ parser_ready \in BOOLEAN
    /\ response = NoResponse
    /\ engine = <<>>
    /\ branches = <<>>
    /\ condensed = batch
    /\ cond_pc \in {"entry", "entry_generative"}
    /\ cond_pc = "entry_generative" => model_ready
    /\ TelegramIdle
    /\ DedupIdle
    /\ FetchIdle
    /\ RatioIdle
    /\ JobIdle
    /\ RenderIdle

SpecCondense == CondInit /\ [][CondNext]_vars

\* The ratio of every pair of normalized keys.
RatioInit ==
    /\ key_a \in KeysUpTo(MaxKeyLen)
    /\ key_b \in KeysUpTo(MaxKeyLen)
    /\ ratio_ab = <<1, 1>>
    /\ ratio_ba = <<1, 1>>
    /\ ratio_pc = "call"
    /\ TelegramIdle
    /\ DedupIdle
    /\ FetchIdle
    /\ CondIdle
    /\ JobIdle
    /\ RenderIdle

SpecRatio == RatioInit /\ [][RatioNext]_vars

\* run_daily_job on every outcome of the feeds.
JobInit ==
    /\ feeds \in FeedLists(MaxFeeds)
    /\ max_articles = 0
    /\ feed_idx = 1
    /\ entry_idx = 1
    /\ all_articles = <<>>
    /\ fetched = <<>>
    /\ fetch_pc = "idle"
    /\ text = <<>>
    /\ max_len = JobMaxLen
    /\ caller = "none"
    /\ pc = "not_called"
    /\ chunks = <<>>
    /\ current = <<>>
    /\ split_parts = <<>>
    /\ flushed = <<>>
    /\ parts = <<>>
    /\ SendIdle
    /\ DedupIdle
    /\ CondIdle
    /\ RatioIdle
    /\ job_items = <<>>
    /\ message = <<>>
    /\ job_success = "none"
    /\ job_pc = "start"
    /\ RenderIdle

SpecJob == JobInit /\ [][JobNext]_vars

\* format_news_message on every list of RenderLists.
RenderInit ==
    /\ render_items \in RenderLists
    /\ document = <<>>
    /\ render_pc = "call"
    /\ TelegramIdle
    /\ DedupIdle
    /\ FetchIdle
    /\ CondIdle
    /\ RatioIdle
    /\ JobIdle

SpecRender == RenderInit /\ [][RenderNext]_vars

----------------------------------------------------------------------------
(* Properties of the chunker *)

\* _split_message has returned (to send_message or to a direct caller).
SplitReturned ==
    /\ pc \in {"returned", "deliver"}
    /\ (caller = "direct" \/ Len(text) > max_len)

\* send_message holds the list of texts it will hand to the delivery call.
PartsReady == pc = "deliver"

\* C1: every segment _split_message produces, synthetic closing tags
\* included, and so every text send_message hands to the delivery call,
\* is at most max_len characters long.
C1_SegmentsWithinMaxLen ==
    /\ \A k \in 1..Len(split_parts) : Len(split_parts[k]) <= max_len
    /\ (pc \in {"returned", "deliver"}) =>
           \A k \in 1..Len(parts) : Len(parts[k]) <= max_len

\* A text has as many opening as closing tags, for each repaired tag.
Balanced(s) == \A t \in 1..Len(Tags) : CountOpen(Tags[t], s) = CountClose(Tags[t], s)

\* C2: every text handed to the delivery call is markup-balanced on its
\* own, split or unsplit.
C2_SegmentsBalanced ==
    PartsReady => \A k \in 1..Len(parts) : Balanced(parts[k])

\* A string made of closing tags only.
OnlyClosers(s) ==
    /\ Len(s) % 4 = 0
    /\ \A j \in 0..((Len(s) \div 4) - 1) :
           \E t \in 1..Len(Tags) : SubSeq(s, 4 * j + 1, 4 * j + 4) = CloseTag(Tags[t])

\* seg is raw followed by nothing but closing tags.
IsRepairOf(seg, raw) ==
    /\ Len(seg) >= Len(raw)
    /\ Take(seg, Len(raw)) = raw
    /\ OnlyClosers(Drop(seg, Len(raw)))

\* The segments are the parts before repair, each followed by closing tags only.
RepairOnlyAppends ==
    /\ Len(parts) = Len(flushed)
    /\ \A k \in 1..Len(parts) : IsRepairOf(parts[k], flushed[k])

\* C3 as stated: with the repair tags removed and the segments re-joined
\* at blank lines, the result of _split_message is the document.
C3_Lossless ==
    SplitReturned => (RepairOnlyAppends /\ JoinBlank(flushed) = text)

NonEmpty(b) == b # <<>>

NotNewline(c) == c # NL

\* The document's blocks, each cut to its first max_len characters.
ClippedBlocks ==
    LET blocks == SplitBlank(text)
    IN  [k \in 1..Len(blocks) |-> Take(blocks[k], max_len)]

\* No block of the document is empty: it neither starts nor ends with a
\* blank line and has no two blank lines in a row.
NoEmptyBlock == \A k \in 1..Len(SplitBlank(text)) : SplitBlank(text)[k] # <<>>

\* C3 amended: with the repair tags removed, the segments hold in order,
\* once each, the document's blocks, each cut to its first max_len
\* characters (line breaks aside); and when no block is empty, re-joining
\* the segments at blank lines gives exactly the document with each block
\* so cut.
C3_LosslessUpToClipping ==
    SplitReturned =>
        /\ RepairOnlyAppends
        /\ SelectSeq(Concat(flushed), NotNewline)
             = SelectSeq(Concat(ClippedBlocks), NotNewline)
        /\ NoEmptyBlock => JoinBlank(flushed) = JoinBlank(ClippedBlocks)

\* A split into several segments of a document without empty blocks, one of
\* which was cut.
C3_Witness ==
    /\ SplitReturned
    /\ Len(parts) >= 2
    /\ NoEmptyBlock
    /\ \E k \in 1..Len(SplitBlank(text)) : Len(SplitBlank(text)[k]) > max_len

----------------------------------------------------------------------------
(* Properties of the delivery *)

\* _send_async returned `value` for part k, as entry h of the history.
ReturnAt(h, k, value) ==
    /\ events[h].ev = "return"
    /\ events[h].part = k
    /\ events[h].what = Returned(value)

SomeFailure == \E h \in 1..Len(events) : events[h].ev = "return" /\ events[h].what = "False"

\* C4: within one send_message call the parts go to the delivery call in
\* the chunker's order, one at a time: a part is sent only after every
\* earlier part's delivery returned success; after a delivery returned
\* failure nothing more is sent and send_message returns False; it returns
\* True only if every part was delivered.
C4_OrderedDelivery ==
    /\ Cardinality(inflight) <= 1
    /\ \A i \in 1..Len(events) :
          events[i].ev = "send" =>
             /\ \A j \in 1..(events[i].part - 1) : \E h \in 1..(i - 1) : ReturnAt(h, j, TRUE)
             /\ \A h \in 1..(i - 1) :
                   events[h].ev = "return" =>
                      /\ events[h].part < events[i].part
                      /\ events[h].what = "True"
    /\ (result = "True") =>
          \A k \in 1..Len(parts) : \E h \in 1..Len(events) : ReturnAt(h, k, TRUE)
    /\ (pc = "done" /\ SomeFailure) => result = "False"
    /\ (result = "False") => SomeFailure

\* The second of three parts failed: the first was delivered, the third
\* never sent, and send_message returned False.
C4_Witness ==
    /\ pc = "done"
    /\ result = "False"
    /\ Len(parts) >= 3
    /\ \E h \in 1..Len(events) : ReturnAt(h, 1, TRUE)
    /\ \E h \in 1..Len(events) : ReturnAt(h, 2, FALSE)
    /\ \A h \in 1..Len(events) : events[h].part # 3

Transient == {"RetryAfter", "TimedOut"}

\* _send_async has been called for the current part and send_message has
\* not yet looked at what it returned.
CallUnderway == pc \in {"attempt", "await", "async_returned"}

\* What _send_async does with each outcome of a call, and how often it calls.
SendAsyncRetries ==
    /\ \A k \in 1..Len(parts) :
          Cardinality({h \in 1..Len(events) : events[h].ev = "send" /\ events[h].part = k})
             <= MAX_RETRIES
    /\ Len(outcomes) <= MAX_RETRIES
    /\ \A i \in 1..Len(outcomes) : outcomes[i].attempt = i
    /\ CallUnderway =>
          /\ \A i \in 1..Len(outcomes) :
                IF i < Len(outcomes)
                THEN \* it was retried: no success, no unexpected error
                     outcomes[i].what \in Transient \cup {"TelegramError"}
                ELSE CASE outcomes[i].what = "ok" ->
                            pc = "async_returned" /\ send_result = "True"
                       [] outcomes[i].what = "Exception" ->
                            pc = "async_returned" /\ send_result = "False"
                       [] OTHER ->
                            IF i = MAX_RETRIES
                            THEN pc = "async_returned" /\ send_result = "False"
                            ELSE pc \in {"attempt", "await"} /\ attempt = i + 1
          /\ (pc = "async_returned") =>
                /\ outcomes # <<>>
                /\ (send_result = "True") <=>
                      (\E i \in 1..Len(outcomes) : outcomes[i].what = "ok")

\* _send_async is running.
InSendAsync == pc \in {"attempt", "await"}

\* C10: for each part _send_async makes at most MAX_RETRIES calls; a
\* rate-limit or time-out is retried until the attempts are used up and
\* then reported as failure, another API error is reported as failure only
\* on the last attempt, an unexpected error at once; it returns True exactly
\* when a call succeeded; and it always returns.
C10_BoundedRetries ==
    /\ []SendAsyncRetries
    /\ (InSendAsync ~> (pc = "async_returned"))

\* _send_async gave up after another API error, a time-out and a
\* rate-limit, in three attempts.
C10_Witness ==
    /\ pc = "async_returned"
    /\ send_result = "False"
    /\ Len(outcomes) = MAX_RETRIES
    /\ outcomes[1].what = "TelegramError"
    /\ outcomes[2].what = "TimedOut"
    /\ outcomes[3].what = "RetryAfter"

----------------------------------------------------------------------------
(* Properties of the de-duplication *)

DedupReturned == dedup_pc = "returned"

\* The positions of the articles that were kept (each article has its own url).
KeptIndexes == {i \in 1..Len(articles) : \E k \in 1..Len(kept) : kept[k] = articles[i]}

\* ratio(candidate, earlier) >= threshold on the normalized titles, the
\* candidate first, as the loop compares them.
Similar(i, j) ==
    RatioAtLeast(Normalize(articles[i].title), Normalize(articles[j].title), threshold)

IsKept(a) == \E k \in 1..Len(kept) : kept[k] = a

\* C5: first seen wins.  The result is the input with some items left out,
\* in the input's order; an item is left out exactly when its normalized
\* title is similar to that of an item kept before it; the first item is kept.
C5_FirstSeenWins ==
    DedupReturned =>
        /\ kept = SelectSeq(articles, IsKept)
        /\ \A i \in 1..Len(articles) :
              (i \notin KeptIndexes) <=> (\E j \in KeptIndexes : j < i /\ Similar(i, j))
        /\ (articles # <<>>) => 1 \in KeptIndexes

\* An item was kept although it is similar to an earlier item, which had
\* itself been left out; another was left out.
C5_Witness ==
    /\ DedupReturned
    /\ \E i \in KeptIndexes :
          /\ i > 1
          /\ \E j \in 1..(i - 1) : j \notin KeptIndexes /\ Similar(i, j)

\* How many items are missing from `survivors`.
Removed(survivors) == Len(articles) - Len(survivors)

\* The position of the first item missing from `survivors`; one past the
\* end when none is.
FirstRemoved(survivors) ==
    LET gone == {i \in 1..Len(articles) :
                    \A k \in 1..Len(survivors) : survivors[k] # articles[i]}
    IN  IF gone = {} THEN Len(articles) + 1
        ELSE CHOOSE i \in gone : \A j \in gone : i <= j

\* C6 as stated: a higher threshold never removes more items.
C6_MonotoneInThreshold ==
    DedupReturned =>
        \A t2 \in Thresholds :
            t2 >= threshold => Removed(Deduplicate(articles, t2)) <= Removed(kept)

\* C6 amended: a higher threshold never moves the first removal forward
\* (every item before the first one removed at the lower threshold is kept
\* at the higher one, so a threshold that removes nothing still removes
\* nothing when raised), and with at most three items it never removes more.
C6_NoEarlierRemoval ==
    DedupReturned =>
        \A t2 \in Thresholds :
            t2 >= threshold =>
               LET higher == Deduplicate(articles, t2)
               IN  /\ FirstRemoved(higher) >= FirstRemoved(kept)
                   /\ Len(articles) <= 3 => Removed(higher) <= Removed(kept)

\* The higher threshold removes more items than the lower one, the first
\* of them later than the lower one's first removal.
C6_Witness ==
    /\ DedupReturned
    /\ \E t2 \in Thresholds :
          /\ t2 > threshold
          /\ Removed(Deduplicate(articles, t2)) > Removed(kept)
          /\ FirstRemoved(Deduplicate(articles, t2)) > FirstRemoved(kept)

----------------------------------------------------------------------------
(* Properties of the condenser *)

\* The generative path was taken and the function has returned.
GenerativeReturned == cond_pc = "returned" /\ response # NoResponse

\* Article i was written by the fallback: its body is the truncation of
\* the original, or the engine's summary of it.
IsFallbackBody(i) ==
    /\ branches[i] \in {"truncated", "extracted"}
    /\ \/ /\ branches[i] = "truncated"
          /\ condensed[i].description =
                 SubSeq(batch[i].description, 1,
                        Min(Len(batch[i].description), ExtractiveBudget)) \o Ellipsis
       \/ /\ branches[i] = "extracted"
          /\ condensed[i].description = batch[i].description

IsList(n) == response.kind = "json" /\ response.type = "list" /\ Len(response.items) = n

AllStrings == \A i \in 1..Len(response.items) : response.items[i].type = "string"

FallbackUsed ==
    /\ cond_pc = "returned"
    /\ batch # <<>>
    /\ Len(branches) = Len(batch)
    /\ \A i \in 1..Len(batch) : branches[i] # "rephrased"

\* The budget of the statement that wrote article i.
Budget(i) == IF branches[i] = "truncated_batch" THEN BatchBudget ELSE ExtractiveBudget

\* C8 as stated: after the fallback no body is longer than the budget.
C8_WithinBudget ==
    FallbackUsed =>
        \A i \in 1..Len(batch) : Len(condensed[i].description) <= Budget(i)

\* C8 amended: a body written by truncation is the first `budget`
\* characters of the original followed by the three-character ellipsis, so
\* it is never longer than the budget plus three; a body written by the
\* extractive branch is the engine's summary, which is not empty and which
\* the budget does not bound.
C8_WithinBudgetPlusEllipsis ==
    FallbackUsed =>
        \A i \in 1..Len(batch) :
            LET original == batch[i].description
                body == condensed[i].description
                kept_chars == Len(body) - Len(Ellipsis)
            IN  IF branches[i] \in {"truncated", "truncated_batch"}
                THEN /\ Len(body) <= Budget(i) + Len(Ellipsis)
                     /\ kept_chars = Min(Len(original), Budget(i))
                     /\ \A k \in 1..kept_chars : body[k] = original[k]
                     /\ \A k \in 1..Len(Ellipsis) : body[kept_chars + k] = "."
                ELSE /\ branches[i] = "extracted"
                     /\ body # <<>>
                     /\ Len(original) >= MinExtractLength

\* A text longer than the budget was truncated: the body is three longer
\* than the budget.
C8_Witness ==
    /\ FallbackUsed
    /\ \E i \in 1..Len(batch) :
          /\ branches[i] = "truncated"
          /\ Len(batch[i].description) > ExtractiveBudget
          /\ Len(condensed[i].description) = ExtractiveBudget + 3

----------------------------------------------------------------------------
(* Properties of the ingestion *)

FetchReturned == fetch_pc = "returned"

IsCandidate(entry) == \E k \in 1..Len(all_articles) : all_articles[k] = Article(entry)

\* C9 as stated: every well-formed entry of every feed becomes a
\* candidate article, whatever the entries around it are.
C9_OnlyMalformedSkipped ==
    FetchReturned =>
        \A f \in 1..Len(feeds) :
            \A j \in 1..Len(feeds[f].entries) :
                ~feeds[f].entries[j].raises => IsCandidate(feeds[f].entries[j])

\* The articles of the entries of a feed that come before its first
\* malformed one.
BeforeFirstMalformed(feed) ==
    LET bad == {j \in 1..Len(feed.entries) : feed.entries[j].raises}
        stop == IF bad = {} THEN Len(feed.entries) + 1
                ELSE CHOOSE j \in bad : \A k \in bad : j <= k
    IN  [j \in 1..(stop - 1) |-> Article(feed.entries[j])]

\* C9 amended: an entry that raises ends its feed: it and the entries of
\* the same feed after it are skipped, while the entries of that feed
\* before it and the entries of every other feed still become candidate
\* articles, in order; the batch is never aborted.
C9_RestOfFeedSkipped ==
    FetchReturned =>
        all_articles = Concat([f \in 1..Len(feeds) |-> BeforeFirstMalformed(feeds[f])])

\* The second entry of a feed raised; its first entry and the first entry
\* of a later feed are candidates.
C9_Witness ==
    /\ FetchReturned
    /\ \E f \in 1..Len(feeds) : \E g \in 1..Len(feeds) :
          /\ f < g
          /\ Len(feeds[f].entries) = 2
          /\ ~feeds[f].entries[1].raises
          /\ feeds[f].entries[2].raises
          /\ feeds[g].entries # <<>>
          /\ ~feeds[g].entries[1].raises
          /\ IsCandidate(feeds[f].entries[1])
          /\ IsCandidate(feeds[g].entries[1])
----------------------------------------------------------------------------
(* Properties of the similarity ratio *)

\* C11: the ratio of two normalized keys is the same whichever of them is
\* the candidate, and so is the test against every threshold.
C11_RatioSymmetric ==
    ratio_pc = "returned" =>
        /\ ratio_ab = ratio_ba
        /\ \A th \in Thresholds :
              RatioAtLeast(key_a, key_b, th) <=> RatioAtLeast(key_b, key_a, th)
----------------------------------------------------------------------------
(* Properties of the run: run_daily_job *)

\* The stages that run_daily_job does run are in order: what is rendered is
\* what fetch_ethiopia_news returned after deduplication, what is chunked is
\* the rendered document, and no delivery call goes out before the chunker
\* has returned.
StageOrderAsCoded ==
    /\ job_pc \in {"formatted", "sending", "done", "raised"} =>
          /\ fetch_pc = "returned"
          /\ job_items = fetched
          /\ job_items = Take(Deduplicate(all_articles, DefaultThreshold),
                              Count(max_articles))
          /\ message = FormatNewsMessage(job_items)
    /\ pc # "not_called" =>
          /\ job_pc \in {"sending", "done", "raised"}
          /\ text = message
    /\ events # <<>> => pc \notin {"not_called", "entry", "loop"}

\* C12: in every run the stages execute in the order Deduplicator, Condenser,
\* Renderer, Chunker, Delivery: every item given to the Renderer has survived
\* deduplication and then had its body replaced by the Condenser, and no
\* stage starts before its predecessor has finished.
C12_StageOrder ==
    /\ StageOrderAsCoded
    /\ job_pc \in {"formatted", "sending", "done", "raised"} =>
          /\ cond_pc = "returned"
          /\ batch = fetched
          /\ job_items = condensed
----------------------------------------------------------------------------
(* Properties of the renderer: format_news_message *)

RenderReturned == render_pc = "returned"

\* The escaped form of a character, and of a text: each character on its
\* own, so that nothing is escaped twice.
EscapedChar(c) ==
    IF c = "&" THEN Amp
    ELSE IF c = "<" THEN Lt
    ELSE IF c = ">" THEN Gt
    ELSE <<c>>

Escaped(field) == Concat([k \in 1..Len(field) |-> EscapedChar(field[k])])

OccursIn(lit, s) == \E p \in 1..Len(s) : OccursAt(lit, s, p)

CountChar(c, s) == Cardinality({p \in 1..Len(s) : s[p] = c})

\* The fields that _escape_html is applied to.
EscapedFields == {"title", "description", "source"}

\* The fields that are inserted as they are.
RawFields == {"url", "published_at"}

\* The title, the description and the source of every article are in the
\* document in escaped form, each character escaped once.
TextFieldsEscaped ==
    RenderReturned =>
        \A k \in 1..Len(render_items) :
            \A name \in EscapedFields \cap DOMAIN render_items[k] :
                /\ EscapeHtml(render_items[k][name]) = Escaped(render_items[k][name])
                /\ OccursIn(Escaped(render_items[k][name]), document)

\* The articles with the url and the date already in escaped form.
WithRawFieldsEscaped(items) ==
    [k \in 1..Len(items) |->
        [name \in DOMAIN items[k] |->
            IF name \in RawFields THEN Escaped(items[k][name]) ELSE items[k][name]]]

\* The number of tags format_news_message itself writes for a list: two
\* pairs in the header and the footer together with one more pair, a link
\* for each article, and two pairs for each description.
EmittedTags(items) ==
    LET perArticle == [k \in 1..Len(items) |->
                          IF Field(items[k], "description", <<>>) # <<>> THEN 6 ELSE 2]
        sum[k \in 0..Len(items)] == IF k = 0 THEN 0 ELSE sum[k - 1] + perArticle[k]
    IN  6 + sum[Len(items)]

\* C13: the rendered document is markup-safe for every list: a '&', '<' or
\* '>' of any inserted field (title, body, source, url, date) appears only
\* in escaped form, the ampersand escaped first so that nothing is escaped
\* twice; hence every tag of the document is one the renderer wrote, and the
\* document is tag-balanced.
C13_MarkupSafe ==
    /\ TextFieldsEscaped
    /\ RenderReturned =>
          /\ document = FormatNewsMessage(WithRawFieldsEscaped(render_items))
          /\ CountChar("<", document) = EmittedTags(render_items)
          /\ CountChar(">", document) = EmittedTags(render_items)
          /\ Balanced(document)

====
